---- MODULE Spec2Model ----
(***************************************************************************)
(* A model of typed-state-machine (src/src/typed-state-machine.ts): the    *)
(* StateMachine class, its constructor with the scope-guarded builder,     *)
(* transition(), subscribe() and the unsubscribe closure, run under the    *)
(* JavaScript execution model (one call stack, run-to-completion, a FIFO   *)
(* timer queue for setTimeout(f, 0)).                                      *)
(*                                                                         *)
(* User code (the config callback, state-definition callbacks, rule        *)
(* functions, onEnter/onExit callbacks, listeners, side effects and the    *)
(* top-level program) is the environment: whenever user code is running    *)
(* it may call any entry point it holds a reference to, return, or throw.  *)
(* The machine's own code is atomic between two callback invocations.      *)
(***************************************************************************)
EXTENDS Integers, Sequences, FiniteSets, TLC

VARIABLES
  phase,          \* "new" | "constructing" | "failed" | "ready": the constructor call
  error,          \* message of the Error the constructor call ended with, or "none"
  scopeStack,     \* this._scopeStack; Head is index 0 (unshift / shift)
  currentState,   \* this._currentState
  configuration,  \* this._configuration: state type -> heap address, 0 = undefined
  heap,           \* the StateConfiguration objects, by address (allocation order)
  listeners,      \* this._listeners: the Set's entry list, in insertion order
  timers,         \* the host's timer queue: callbacks handed to setTimeout(f, 0)
  stack,          \* the call stack, bottom first
  handles,        \* the unsubscribe closures returned so far: the listener each captured
  hist,           \* history: counters and per-listener / per-dispatch records
  last            \* history: the step just taken

vars == <<phase, error, scopeStack, currentState, configuration, heap,
          listeners, timers, stack, handles, hist, last>>

----------------------------------------------------------------------------
(* Bounds of the exploration *)

\* entry-point calls (initialState, state, onEnter, onExit, on) user code makes
MaxConfigCalls == 4
\* transition / subscribe / unsubscribe calls user code makes
MaxRunCalls == 4
\* the same, in the behaviours checked for liveness
MaxFairCalls == 3
\* exceptions thrown by user callbacks
MaxThrows == 1

----------------------------------------------------------------------------
(* Values *)

StateTypes == {"state1", "state2", "state3"}
EventTypes == {"action1", "action2"}

\* type BaseStateOrEvent = { type: string }
State == [type : StateTypes]
Event == [type : EventTypes]
Mk(t) == [type |-> t]
Undefined == Mk("undefined")
Null == Mk("null")

\* type Transition<State> = { state: State | null; sideEffect: (() => void) | null }
\* `set` tells a rule function from an absent entry of `on`.
Transition == [set : {TRUE}, state : State \cup {Null}, sideEffect : BOOLEAN]
NoRule == [set |-> FALSE, state |-> Null, sideEffect |-> FALSE]

\* transitionTo(state, sideEffect?) and dontTransition(sideEffect?)
transitionTo(state, sideEffect) ==
  [set |-> TRUE, state |-> state, sideEffect |-> sideEffect]
dontTransition(sideEffect) ==
  [set |-> TRUE, state |-> Null, sideEffect |-> sideEffect]

MergedStateConfiguration(type) ==
  IF configuration[type] # 0 THEN heap[configuration[type]]
  ELSE [for |-> type, onEnter |-> FALSE, onExit |-> FALSE,
        on |-> [e \in EventTypes |-> NoRule]]

\* const stateConfiguration: StateConfiguration = { on: {} }
\* `for` is the `state` argument the closures of that call capture.
NewStateConfiguration(type) ==
  [for |-> type, onEnter |-> FALSE, onExit |-> FALSE,
   on |-> [e \in EventTypes |-> NoRule]]

Listeners == {"listener1", "listener2"}
Empty == "empty"

----------------------------------------------------------------------------
(* The call stack *)

MachineKinds == {"constructor", "state", "transition", "subscribe"}
UserKinds == {"configCallback", "stateDefinitionCallback", "onEvent",
              "onExit", "onEnter", "listener", "sideEffect"}

\* One shape for every frame; a frame uses the fields its kind needs.
Frame0 ==
  [kind |-> "none", id |-> 0, at |-> "none",
   type |-> "none", def |-> 0,
   event |-> Null, state |-> Null, sideEffect |-> FALSE,
   previousState |-> Null, iter |-> 0,
   listener |-> Empty, previous |-> Null, current |-> Null,
   seen |-> << >>, steady |-> {}, exits |-> 0, enters |-> 0,
   atCall |-> {}, atRound |-> {}, removed |-> {}, calls |-> 0,
   rule |-> NoRule, csAtCall |-> Null,
   passed |-> Null, prior |-> Null]

Top(s) == s[Len(s)]
Pop(s) == SubSeq(s, 1, Len(s) - 1)

\* User code is running: at top level, or in a callback on top of the stack.
UserRunning == IF stack = << >> THEN TRUE ELSE Top(stack).kind \in UserKinds

\* An exception leaving the user frame on top of s: no frame of the machine
\* has a try/catch/finally, so every machine frame under it is abandoned as
\* it stands, down to the next user frame (which may catch) or the top level.
RECURSIVE Abandon(_)
Abandon(s) ==
  IF s = << >> THEN s
  ELSE IF Top(s).kind \in UserKinds THEN s ELSE Abandon(Pop(s))

UnwindCallback(s) == Pop(s)

\* The stack once the exception has left the callback on top of s and the
\* machine frames that called it
Unwind(s) == Abandon(Pop(s))

----------------------------------------------------------------------------
(* History *)

Hist0 ==
  [limit |-> MaxRunCalls,  \* transition / subscribe / unsubscribe calls explored
   calls |-> 0,            \* entry-point calls made
   runCalls |-> 0,         \* transition / subscribe / unsubscribe calls made
   throws |-> 0,           \* exceptions thrown by user callbacks
   argument |-> "none",    \* what the constructor was called with
   initialStates |-> 0,    \* accepted initialState calls
   states |-> 0,           \* accepted state calls
   initial |-> Undefined,  \* the argument of the last accepted initialState call
   returned |-> FALSE,     \* the config callback has returned
   dispatches |-> 0,       \* transition() calls made; a dispatch's id is its rank
   scheduled |-> << >>,    \* the dispatches that scheduled a side effect, in that order
   ran |-> << >>,          \* the dispatches whose side effect has run, in that order
   open |-> << >>,         \* per dispatch: the dispatches in progress when it was called
   subscribed |-> {},      \* listeners subscribed and not unsubscribed since
   subscribes |-> [l \in Listeners |-> 0],  \* subscribe calls made, per listener
   called |-> {},          \* the unsubscribe closures called so far
   entered |-> Undefined,  \* the state the last onEnter invocation was given
   told |-> [l \in {} |-> Null],
                           \* per listener whose notifications are recorded:
                           \* the `current` of the notification last delivered
                           \* to it since it was subscribed, null once it is
                           \* unsubscribed
   fold |-> Null,          \* the rule table folded over the events dispatched so
                           \* far, from the initial state; kept while every
                           \* dispatch was called with no dispatch in progress
   balance |-> [t \in StateTypes |-> 0]]
                           \* per state type: invocations of the onEnter callback
                           \* registered for it, less those of its onExit callback

Last0 ==
  [op |-> "start", name |-> "none", accepted |-> TRUE, top |-> "none",
   constructed |-> FALSE, message |-> "none",
   id |-> 0, event |-> Null, listener |-> Empty, before |-> Undefined,
   members |-> {}, timers |-> << >>, depth |-> 0, done |-> Frame0,
   def |-> 0, type |-> "none", rule |-> NoRule, state |-> Null,
   thrown |-> Frame0]

\* The step just taken: operation `op`, taken with the stack at this depth
\* and this current state.
Step(op) == [Last0 EXCEPT !.op = op, !.before = currentState,
                          !.depth = Len(stack), !.timers = timers]

\* The `current` of the notification last delivered to listener l since it
\* was subscribed, null when there was none or l is unsubscribed
Told(h, l) == IF l \in DOMAIN h.told THEN h.told[l] ELSE Null

\* The record of notifications once listener l has been delivered one with
\* `current` v (null: once l is unsubscribed)
Tell(h, l, v) ==
  IF l \in DOMAIN h.told THEN [h.told EXCEPT ![l] = v] ELSE h.told

\* The history once the machine has called the onEnter / onExit callback or
\* the listener of frame c
Invoke(h, c) ==
  IF c.kind = "onEnter"
  THEN [h EXCEPT !.entered = c.state, !.balance[heap[c.def].for] = @ + 1]
  ELSE IF c.kind = "onExit"
  THEN [h EXCEPT !.balance[heap[c.def].for] = @ - 1]
  ELSE IF c.kind = "listener"
  THEN [h EXCEPT !.told = Tell(h, c.listener, c.current)]
  ELSE h

----------------------------------------------------------------------------
(* The scope guard *)

ConfigScopeMessage == "initialState"

\* _checkConfigScope: passes iff this._scopeStack[0] === "config"
checkConfigScope(ss) == ss # << >> /\ Head(ss) = "config"

checkStateScopeNonEmpty(ss) == ss # << >>

\* _checkStateScope: passes iff this._scopeStack[0] === "state"
checkStateScope(ss) == ss # << >> /\ Head(ss) = "state"

\* The tag an entry point finds on top of the scope stack
TopTag(ss) == IF ss = << >> THEN "none" ELSE Head(ss)

\* One entry-point call by user code, accepted or rejected by the guard. A
\* rejected call throws into the calling user code, which catches the error
\* or lets it go on (a Throw step).
Call(name, ok) ==
  [Step(name) EXCEPT !.name = name, !.accepted = ok,
                     !.top = TopTag(scopeStack),
                     !.constructed = (phase = "ready"),
                     !.message = IF ok THEN "none"
                                 ELSE IF name \in {"initialState", "state"}
                                      THEN ConfigScopeMessage ELSE name]

\* User code holds the entry points of a machine under or after construction.
CanConfigure ==
  /\ UserRunning
  /\ phase \in {"constructing", "ready"}
  /\ hist.calls < MaxConfigCalls

----------------------------------------------------------------------------
(* The constructor and the builder *)

\* new StateMachine(configCallback), up to the call of configCallback
Construct(configCallback) ==
  /\ phase = "new"
  /\ stack = << >>
  /\ IF configCallback # "function"
     THEN /\ phase' = "failed"
          /\ error' = "The StateMachine constructor expects a callback as the first argument"
          /\ UNCHANGED <<scopeStack, stack>>
     ELSE /\ phase' = "constructing"
          /\ scopeStack' = <<"config">> \o scopeStack
          /\ stack' = <<[Frame0 EXCEPT !.kind = "constructor", !.at = "config"],
                        [Frame0 EXCEPT !.kind = "configCallback"]>>
          /\ error' = error
  /\ hist' = [hist EXCEPT !.argument = configCallback]
  /\ last' = Step("construct")
  /\ UNCHANGED <<currentState, configuration, heap, listeners, timers, handles>>

\* initialState(state)
InitialState(state) ==
  /\ CanConfigure
  /\ LET ok == checkConfigScope(scopeStack) IN
     /\ currentState' = IF ok THEN state ELSE currentState
     /\ hist' = [hist EXCEPT !.calls = @ + 1,
                             !.initialStates = IF ok THEN @ + 1 ELSE @,
                             !.initial = IF ok THEN state ELSE @]
     /\ last' = [Call("initialState", ok) EXCEPT !.state = state]
  /\ UNCHANGED <<phase, error, scopeStack, configuration, heap, listeners,
                 timers, stack, handles>>

\* state(type, stateDefinitionCallback), up to the call of the callback
StateDefinition(type) ==
  /\ CanConfigure
  /\ LET ok == checkConfigScope(scopeStack) IN
     /\ IF ok
        THEN /\ heap' = Append(heap, NewStateConfiguration(type))
             /\ scopeStack' = <<"state">> \o scopeStack
             /\ stack' = stack \o
                  <<[Frame0 EXCEPT !.kind = "state", !.type = type,
                                   !.def = Len(heap) + 1],
                    [Frame0 EXCEPT !.kind = "stateDefinitionCallback",
                                   !.def = Len(heap) + 1]>>
        ELSE UNCHANGED <<heap, scopeStack, stack>>
     /\ hist' = [hist EXCEPT !.calls = @ + 1,
                             !.states = IF ok THEN @ + 1 ELSE @]
     /\ last' = [Call("state", ok) EXCEPT !.type = type,
                                          !.def = IF ok THEN Len(heap) + 1 ELSE 0]
  /\ UNCHANGED <<phase, error, currentState, configuration, listeners,
                 timers, handles>>

\* state(...), after stateDefinitionCallback has returned
StateDefinitionReturn ==
  /\ stack # << >>
  /\ Top(stack).kind = "stateDefinitionCallback"
  /\ LET f == stack[Len(stack) - 1] IN
     /\ scopeStack' = Tail(scopeStack)
     /\ configuration' = [configuration EXCEPT ![f.type] = f.def]
  /\ stack' = Pop(Pop(stack))
  /\ last' = [Step("stateReturn") EXCEPT !.type = stack[Len(stack) - 1].type,
                                         !.def = stack[Len(stack) - 1].def]
  /\ UNCHANGED <<phase, error, currentState, heap, listeners, timers,
                 handles, hist>>

\* The onEnter / onExit / on entry points granted for heap[def]: user code
\* holds them from the moment the state-definition callback was called.
OnEnter(def) ==
  /\ CanConfigure
  /\ def \in 1..Len(heap)
  /\ LET ok == checkStateScope(scopeStack) IN
     /\ heap' = IF ok THEN [heap EXCEPT ![def].onEnter = TRUE] ELSE heap
     /\ last' = [Call("onEnter", ok) EXCEPT !.def = def]
  /\ hist' = [hist EXCEPT !.calls = @ + 1]
  /\ UNCHANGED <<phase, error, scopeStack, currentState, configuration,
                 listeners, timers, stack, handles>>

OnExit(def) ==
  /\ CanConfigure
  /\ def \in 1..Len(heap)
  /\ LET ok == checkStateScope(scopeStack) IN
     /\ heap' = IF ok THEN [heap EXCEPT ![def].onExit = TRUE] ELSE heap
     /\ last' = [Call("onExit", ok) EXCEPT !.def = def]
  /\ hist' = [hist EXCEPT !.calls = @ + 1]
  /\ UNCHANGED <<phase, error, scopeStack, currentState, configuration,
                 listeners, timers, stack, handles>>

On(def, type, onEventCallback) ==
  /\ CanConfigure
  /\ def \in 1..Len(heap)
  /\ LET ok == checkStateScope(scopeStack) IN
     /\ heap' = IF ok THEN [heap EXCEPT ![def].on[type] = onEventCallback]
                ELSE heap
     /\ last' = [Call("on", ok) EXCEPT !.def = def, !.type = type,
                                       !.rule = onEventCallback]
  /\ hist' = [hist EXCEPT !.calls = @ + 1]
  /\ UNCHANGED <<phase, error, scopeStack, currentState, configuration,
                 listeners, timers, stack, handles>>

\* this._configuration[type]?.onEnter is a function
HasOnEnter(type) ==
  /\ type \in DOMAIN configuration
  /\ configuration[type] # 0
  /\ heap[configuration[type]].onEnter

NoInitialStateNullCheck == currentState = Null

\* this._currentState === undefined
NoInitialState == currentState = Undefined

\* Object.keys(this._configuration).length === 0
NoStateDefinition == \A t \in StateTypes : configuration[t] = 0

\* The constructor, after configCallback has returned: the final shift, the
\* two validations and the initial state's onEnter
ConfigCallbackReturn ==
  /\ stack # << >>
  /\ Top(stack).kind = "configCallback"
  /\ scopeStack' = Tail(scopeStack)
  /\ IF NoInitialState
     THEN /\ phase' = "failed"
          /\ error' = "No initial state provided"
          /\ stack' = << >>
     ELSE IF NoStateDefinition
     THEN /\ phase' = "failed"
          /\ error' = "No state definition was provided"
          /\ stack' = << >>
     ELSE IF HasOnEnter(currentState.type)
     THEN /\ stack' = <<[Frame0 EXCEPT !.kind = "constructor", !.at = "enter"],
                        [Frame0 EXCEPT !.kind = "onEnter",
                                       !.def = configuration[currentState.type],
                                       !.state = currentState,
                                       !.csAtCall = currentState]>>
          /\ UNCHANGED <<phase, error>>
     ELSE /\ phase' = "ready"
          /\ stack' = << >>
          /\ error' = error
  /\ hist' = IF ~NoInitialState /\ ~NoStateDefinition
                  /\ HasOnEnter(currentState.type)
             THEN Invoke([hist EXCEPT !.returned = TRUE, !.fold = currentState],
                         [Frame0 EXCEPT !.kind = "onEnter",
                                        !.def = configuration[currentState.type],
                                        !.state = currentState])
             ELSE [hist EXCEPT !.returned = TRUE,
                               !.fold = IF NoInitialState \/ NoStateDefinition
                                        THEN @ ELSE currentState]
  /\ last' = Step("configReturn")
  /\ UNCHANGED <<currentState, configuration, heap, listeners, timers, handles>>

\* The constructor returns once the initial onEnter callback has returned
ConstructorEnterReturn ==
  /\ Len(stack) >= 2
  /\ Top(stack).kind = "onEnter"
  /\ stack[Len(stack) - 1].kind = "constructor"
  /\ phase' = "ready"
  /\ stack' = Pop(Pop(stack))
  /\ last' = Step("constructed")
  /\ UNCHANGED <<error, scopeStack, currentState, configuration, heap,
                 listeners, timers, handles, hist>>

\* A user callback throws (its own error, or one it did not catch)
Throw ==
  /\ stack # << >>
  /\ Top(stack).kind \in UserKinds
  /\ hist.throws < MaxThrows
  /\ stack' = Unwind(stack)
  /\ IF \E i \in Len(Unwind(stack)) + 1 .. Len(stack) : stack[i].kind = "constructor"
     THEN phase' = "failed" /\ error' = "thrown by a callback"
     ELSE UNCHANGED <<phase, error>>
  /\ hist' = [hist EXCEPT !.throws = @ + 1]
  /\ last' = [Step("throw") EXCEPT
                !.thrown = Top(stack),
                !.done = IF Len(stack) >= 2 THEN stack[Len(stack) - 1] ELSE Frame0]
  /\ UNCHANGED <<scopeStack, currentState, configuration, heap, listeners,
                 timers, handles>>

----------------------------------------------------------------------------
(* The observer registry: a JavaScript Set.  Its entries keep insertion    *)
(* order; delete() empties the entry in place, add() of a value not in the *)
(* Set appends an entry, and an iterator is a position in the entry list,  *)
(* so it skips entries emptied before it reaches them and reaches entries  *)
(* appended while it runs.                                                 *)

Members(ls) == {ls[i] : i \in DOMAIN ls} \ {Empty}

SetAddAlways(ls, l) == Append(ls, l)

\* this._listeners.add(listener)
SetAdd(ls, l) == IF l \in Members(ls) THEN ls ELSE Append(ls, l)

SetDeleteFirst(ls, l) ==
  [i \in DOMAIN ls |-> IF i = 1 THEN Empty ELSE ls[i]]

\* this._listeners.delete(listener)
SetDelete(ls, l) == [i \in DOMAIN ls |-> IF ls[i] = l THEN Empty ELSE ls[i]]

AheadAll(ls, iter) == {i \in DOMAIN ls : i > iter}

\* The entries an iterator at position iter has still to visit
Ahead(ls, iter) == {i \in DOMAIN ls : i > iter /\ ls[i] # Empty}

Greatest(S) == CHOOSE i \in S : \A j \in S : i >= j

\* The entry the iterator visits next: the first of those ahead
Least(S) == CHOOSE i \in S : \A j \in S : i <= j

----------------------------------------------------------------------------
(* transition(event) *)

\* User code holds the machine: the constructor has returned it.
CanRun ==
  /\ UserRunning
  /\ phase = "ready"
  /\ hist.runCalls < hist.limit

\* The state the rule table leads to from state s on event e: the state the
\* rule registered for (s.type, e.type) returns, s when there is no such
\* rule or it returns dontTransition
step(s, e) ==
  IF s.type \notin DOMAIN configuration THEN s
  ELSE IF configuration[s.type] = 0 THEN s
  ELSE LET rule == heap[configuration[s.type]].on[e.type] IN
       IF rule.set /\ rule.state # Null THEN rule.state ELSE s

\* const stateDefinition = this._configuration[this._currentState.type]
StateDefinitionOf(state) ==
  IF state.type \in DOMAIN configuration THEN configuration[state.type] ELSE 0

OnEventOfDefault(def, event) ==
  IF def = 0 THEN NoRule
  ELSE IF heap[def].on[event.type].set THEN heap[def].on[event.type]
  ELSE dontTransition(FALSE)

\* const onEvent = stateDefinition.on[event.type], NoRule after either of
\* the early returns (!stateDefinition, !onEvent)
OnEventOf(def, event) ==
  IF def = 0 THEN NoRule ELSE heap[def].on[event.type]

\* What a stretch of transition() leaves: the stack, the current state, the
\* timer queue and, when the call has returned, its frame as it ended.
Outcome(s, cs, tq, done) ==
  [stack |-> s, currentState |-> cs, timers |-> tq, done |-> done]

ScheduleNow(s, cs, f) ==
  IF f.sideEffect
  THEN Outcome(s \o <<[Frame0 EXCEPT !.kind = "sideEffect", !.id = f.id]>>,
               cs, timers, f)
  ELSE Outcome(s, cs, timers, f)

\* if (sideEffect) { setTimeout(() => { sideEffect?.() }, 0) }, and return
Schedule(s, cs, f) ==
  Outcome(s, cs, IF f.sideEffect THEN Append(timers, f.id) ELSE timers, f)

\* for (const listener of this._listeners)
\*   listener(previousState, state ?? previousState, event)
\* from iterator position f.iter, up to the next call of a listener
Notify(s, cs, f0) ==
  LET f == IF f0.at = "notify" THEN f0
           ELSE [f0 EXCEPT !.atRound = Members(listeners)] IN
  IF Ahead(listeners, f.iter) = {}
  THEN Schedule(s, cs, f)
  ELSE LET i == Least(Ahead(listeners, f.iter)) IN
       Outcome(s \o <<[f EXCEPT !.at = "notify", !.iter = i,
                                !.seen = Append(@, listeners[i])],
                      [Frame0 EXCEPT !.kind = "listener", !.id = f.id,
                                     !.listener = listeners[i],
                                     !.previous = f.previousState,
                                     !.current = IF f.state # Null THEN f.state
                                                 ELSE f.previousState,
                                     !.event = f.event,
                                     !.csAtCall = cs,
                                     !.prior = Told(hist, listeners[i])]>>,
               cs, timers, Frame0)

EnterBeforeUpdate(s, cs, f) ==
  IF HasOnEnter(f.state.type)
  THEN Outcome(s \o <<[f EXCEPT !.at = "enter", !.enters = @ + 1],
                      [Frame0 EXCEPT !.kind = "onEnter", !.id = f.id,
                                     !.def = configuration[f.state.type],
                                     !.state = f.state,
                                     !.csAtCall = cs]>>,
               cs, timers, Frame0)
  ELSE Notify(s, f.state, f)

EnterWithCallbackOnly(s, cs, f) ==
  IF HasOnEnter(f.state.type)
  THEN Outcome(s \o <<[f EXCEPT !.at = "enter", !.enters = @ + 1],
                      [Frame0 EXCEPT !.kind = "onEnter", !.id = f.id,
                                     !.def = configuration[f.state.type],
                                     !.state = f.state,
                                     !.csAtCall = f.state]>>,
               f.state, timers, Frame0)
  ELSE Notify(s, cs, f)

\* this._currentState = state
\* this._configuration[state.type]?.onEnter?.({ state })
Enter(s, cs, f) ==
  IF HasOnEnter(f.state.type)
  THEN Outcome(s \o <<[f EXCEPT !.at = "enter", !.enters = @ + 1],
                      [Frame0 EXCEPT !.kind = "onEnter", !.id = f.id,
                                     !.def = configuration[f.state.type],
                                     !.state = f.state,
                                     !.csAtCall = f.state]>>,
               f.state, timers, Frame0)
  ELSE Notify(s, f.state, f)

ApplyAlwaysExit(s, cs, f, t) ==
  LET g == [f EXCEPT !.state = t.state, !.sideEffect = t.sideEffect,
                     !.previousState = cs] IN
  IF heap[f.def].onExit
  THEN Outcome(s \o <<[g EXCEPT !.at = "exit", !.exits = @ + 1],
                      [Frame0 EXCEPT !.kind = "onExit", !.id = f.id,
                                     !.def = f.def, !.state = cs,
                                     !.csAtCall = cs]>>,
               cs, timers, Frame0)
  ELSE Notify(s, cs, g)

\* const { state, sideEffect } = <what onEvent returned>
\* const previousState = this._currentState
\* if (state !== null) { stateDefinition.onExit?.({ state: this._currentState }) ...
Apply(s, cs, f, t) ==
  LET g == [f EXCEPT !.state = t.state, !.sideEffect = t.sideEffect,
                     !.previousState = cs] IN
  IF t.state = Null THEN Notify(s, cs, g)
  ELSE IF heap[f.def].onExit
  THEN Outcome(s \o <<[g EXCEPT !.at = "exit", !.exits = @ + 1],
                      [Frame0 EXCEPT !.kind = "onExit", !.id = f.id,
                                     !.def = f.def, !.state = cs,
                                     !.csAtCall = cs]>>,
               cs, timers, Frame0)
  ELSE Enter(s, cs, g)

\* The variables a stretch of transition() writes
Resume(op, r) ==
  /\ stack' = r.stack
  /\ currentState' = r.currentState
  /\ timers' = r.timers
  /\ hist' = IF r.done.kind = "transition"
             THEN IF r.done.sideEffect
                  THEN [hist EXCEPT !.scheduled = Append(@, r.done.id)]
                  ELSE hist
             ELSE Invoke(hist, Top(r.stack))
  /\ last' = [Step(op) EXCEPT !.done = r.done, !.id = Top(stack).id,
                              !.members = Members(listeners)]
  /\ UNCHANGED <<phase, error, scopeStack, configuration, heap, listeners,
                 handles>>

\* The dispatches whose transition() call has not returned
InProgress(s) == {s[i].id : i \in {j \in DOMAIN s : s[j].kind = "transition"}}

\* transition(event), up to an early return or the call of the rule function
transition(event) ==
  /\ CanRun
  /\ LET def == StateDefinitionOf(currentState)
         onEvent == OnEventOf(def, event)
         id == hist.dispatches + 1 IN
     /\ stack' = IF ~onEvent.set THEN stack
                 ELSE stack \o
                   <<[Frame0 EXCEPT !.kind = "transition", !.id = id,
                                    !.at = "rule", !.def = def,
                                    !.event = event,
                                    !.steady = Members(listeners),
                                    !.atCall = Members(listeners),
                                    !.calls = hist.runCalls + 1,
                                    !.passed = currentState],
                     [Frame0 EXCEPT !.kind = "onEvent", !.id = id,
                                    !.def = def, !.state = currentState,
                                    !.event = event, !.rule = onEvent,
                                    !.csAtCall = currentState]>>
     /\ last' = [Step("transition") EXCEPT !.id = id, !.event = event,
                                           !.members = Members(listeners),
                                           !.accepted = onEvent.set]
  /\ hist' = [hist EXCEPT !.runCalls = @ + 1, !.dispatches = @ + 1,
                          !.open = Append(@, InProgress(stack)),
                          !.fold = IF @ = Null \/ InProgress(stack) # {}
                                   THEN Null ELSE step(@, event)]
  /\ UNCHANGED <<phase, error, scopeStack, currentState, configuration, heap,
                 listeners, timers, handles>>

\* The frame of the machine's method that called the callback on top
Caller == stack[Len(stack) - 1]
Below == SubSeq(stack, 1, Len(stack) - 2)

\* The rule function returns its Transition
OnEventReturn ==
  /\ stack # << >>
  /\ Top(stack).kind = "onEvent"
  /\ Resume("onEventReturn",
            Apply(Below, currentState, Caller, Top(stack).rule))

\* The onExit callback returns
OnExitReturn ==
  /\ stack # << >>
  /\ Top(stack).kind = "onExit"
  /\ Resume("onExitReturn", Enter(Below, currentState, Caller))

\* The onEnter callback of the new state returns
OnEnterReturn ==
  /\ Len(stack) >= 2
  /\ Top(stack).kind = "onEnter"
  /\ Caller.kind = "transition"
  /\ Resume("onEnterReturn", Notify(Below, currentState, Caller))

\* A listener called by transition() returns
ListenerReturn ==
  /\ Len(stack) >= 2
  /\ Top(stack).kind = "listener"
  /\ Caller.kind = "transition"
  /\ Resume("listenerReturn", Notify(Below, currentState, Caller))

----------------------------------------------------------------------------
(* subscribe(listener) and the unsubscribe closure *)

FirstEmitPrevious(listener) ==
  [Frame0 EXCEPT !.kind = "listener", !.listener = listener,
                 !.previous = currentState, !.current = currentState,
                 !.event = Null, !.csAtCall = currentState]

\* listener(null, this._currentState, null)
FirstEmit(listener) ==
  [Frame0 EXCEPT !.kind = "listener", !.listener = listener,
                 !.previous = Null, !.current = currentState,
                 !.event = Null, !.csAtCall = currentState]

\* A dispatch in progress forgets that it lost a listener that is
\* subscribed again
Restored(s, l) ==
  [i \in DOMAIN s |-> IF s[i].kind = "transition"
                      THEN [s[i] EXCEPT !.removed = @ \ {l}] ELSE s[i]]

\* subscribe(listener), up to the call of the listener
subscribe(listener) ==
  /\ CanRun
  /\ listeners' = SetAdd(listeners, listener)
  /\ stack' = Restored(stack, listener) \o
       <<[Frame0 EXCEPT !.kind = "subscribe", !.listener = listener],
         FirstEmit(listener)>>
  /\ hist' = [hist EXCEPT !.runCalls = @ + 1,
                          !.subscribed = @ \cup {listener},
                          !.subscribes[listener] = @ + 1,
                          !.told = Tell(hist, listener, currentState)]
  /\ last' = [Step("subscribe") EXCEPT !.listener = listener,
                                       !.members = Members(listeners)]
  /\ UNCHANGED <<phase, error, scopeStack, currentState, configuration, heap,
                 timers, handles>>

\* return () => { this._listeners.delete(listener) }
SubscribeReturn ==
  /\ Len(stack) >= 2
  /\ Top(stack).kind = "listener"
  /\ Caller.kind = "subscribe"
  /\ handles' = Append(handles, Caller.listener)
  /\ stack' = Below
  /\ last' = [Step("subscribeReturn") EXCEPT !.listener = Caller.listener,
                                             !.members = Members(listeners)]
  /\ UNCHANGED <<phase, error, scopeStack, currentState, configuration, heap,
                 listeners, timers, hist>>

\* A dispatch in progress keeps, of the listeners that were members when it
\* was called, those not removed since; a dispatch in its notification round
\* records the listeners the round began with that are removed before it
\* has called them
Unsteady(s, l) ==
  [i \in DOMAIN s |->
     IF s[i].kind = "transition"
     THEN [s[i] EXCEPT
             !.steady = @ \ {l},
             !.removed = IF /\ s[i].at = "notify"
                            /\ l \in s[i].atRound
                            /\ l \in Members(listeners)
                            /\ l \notin {s[i].seen[k] : k \in DOMAIN s[i].seen}
                         THEN @ \cup {l} ELSE @]
     ELSE s[i]]

\* The unsubscribe closure handles[h] is called
Unsubscribe(h) ==
  /\ CanRun
  /\ h \in DOMAIN handles
  /\ listeners' = SetDelete(listeners, handles[h])
  /\ stack' = Unsteady(stack, handles[h])
  /\ hist' = [hist EXCEPT !.runCalls = @ + 1,
                          !.subscribed = @ \ {handles[h]},
                          !.called = @ \cup {h},
                          !.told = Tell(hist, handles[h], Null)]
  /\ last' = [Step("unsubscribe") EXCEPT !.listener = handles[h],
                                         !.members = Members(listeners)]
  /\ UNCHANGED <<phase, error, scopeStack, currentState, configuration, heap,
                 timers, handles>>

----------------------------------------------------------------------------
(* The host: setTimeout(f, 0) callbacks run one at a time, oldest first,   *)
(* each when no other code is running.                                     *)

NextTimerNewest(tq) == Len(tq)

\* The timer the event loop runs next
NextTimer(tq) == 1

RunSideEffect ==
  /\ stack = << >>
  /\ timers # << >>
  /\ LET i == NextTimer(timers) IN
     /\ stack' = <<[Frame0 EXCEPT !.kind = "sideEffect", !.id = timers[i]]>>
     /\ timers' = SubSeq(timers, 1, i - 1) \o SubSeq(timers, i + 1, Len(timers))
     /\ hist' = [hist EXCEPT !.ran = Append(@, timers[i])]
     /\ last' = [Step("sideEffect") EXCEPT !.id = timers[i]]
  /\ UNCHANGED <<phase, error, scopeStack, currentState, configuration, heap,
                 listeners, handles>>

SideEffectReturn ==
  /\ stack # << >>
  /\ Top(stack).kind = "sideEffect"
  /\ stack' = Pop(stack)
  /\ last' = [Step("sideEffectReturn") EXCEPT !.id = Top(stack).id]
  /\ UNCHANGED <<phase, error, scopeStack, currentState, configuration, heap,
                 listeners, timers, handles, hist>>

----------------------------------------------------------------------------
(* The builder's specification: one constructor call by the top-level      *)
(* program, whose callbacks make any calls of the entry points they hold,  *)
(* and the calls of captured entry points after it.                        *)

\* The rule functions user code registers here
SomeRules == {transitionTo(Mk("state2"), FALSE), dontTransition(TRUE)}

InitBuild ==
  /\ phase = "new"
  /\ error = "none"
  /\ scopeStack = << >>
  /\ currentState = Undefined
  /\ configuration = [t \in StateTypes |-> 0]
  /\ heap = << >>
  /\ listeners = << >>
  /\ timers = << >>
  /\ stack = << >>
  /\ handles = << >>
  /\ hist = Hist0
  /\ last = Last0

NextBuild ==
  \/ \E a \in {"function", "undefined"} : Construct(a)
  \/ \E s \in State : InitialState(s)
  \/ \E t \in StateTypes : StateDefinition(t)
  \/ StateDefinitionReturn
  \/ \E d \in 1..Len(heap) : OnEnter(d)
  \/ \E d \in 1..Len(heap) : OnExit(d)
  \/ \E d \in 1..Len(heap), e \in EventTypes, r \in SomeRules : On(d, e, r)
  \/ ConfigCallbackReturn
  \/ ConstructorEnterReturn
  \/ Throw

SpecBuild == InitBuild /\ [][NextBuild]_vars

----------------------------------------------------------------------------
(* The running machine's specification: the constructor call at the point  *)
(* where the config callback, having built one of these rule tables, is    *)
(* about to return; then any calls of transition, subscribe and the        *)
(* unsubscribe closures by the top-level program and by the callbacks.     *)

Rules(a1, a2) == [e \in EventTypes |-> IF e = "action1" THEN a1 ELSE a2]

\* The three-state cycle of the test suite (part_001:231-293, 329-356):
\* every state has onEnter and onExit
CycleTable ==
  [initial |-> Mk("state1"),
   configuration |-> [t \in StateTypes |->
      IF t = "state1" THEN 1 ELSE IF t = "state2" THEN 2 ELSE 3],
   heap |-> <<
     [for |-> "state1", onEnter |-> TRUE, onExit |-> TRUE,
      on |-> Rules(transitionTo(Mk("state2"), TRUE), NoRule)],
     [for |-> "state2", onEnter |-> TRUE, onExit |-> TRUE,
      on |-> Rules(dontTransition(TRUE), transitionTo(Mk("state3"), FALSE))],
     [for |-> "state3", onEnter |-> TRUE, onExit |-> TRUE,
      on |-> Rules(transitionTo(Mk("state1"), TRUE), dontTransition(FALSE))]>>]

\* The turnstile of the README (part_000:38-81): locked, unlocked, and a
\* state that is entered but has no definition
TurnstileTable ==
  [initial |-> Mk("state1"),
   configuration |-> [t \in StateTypes |->
      IF t = "state1" THEN 1 ELSE IF t = "state2" THEN 2 ELSE 0],
   heap |-> <<
     [for |-> "state1", onEnter |-> TRUE, onExit |-> FALSE,
      on |-> Rules(transitionTo(Mk("state2"), TRUE), dontTransition(TRUE))],
     [for |-> "state2", onEnter |-> FALSE, onExit |-> TRUE,
      on |-> Rules(transitionTo(Mk("state3"), FALSE),
                   transitionTo(Mk("state1"), FALSE))]>>]

Tables == {CycleTable, TurnstileTable}

InitRunWith(limit, recorded) ==
  \E table \in Tables :
    /\ phase = "constructing"
    /\ error = "none"
    /\ scopeStack = <<"config">>
    /\ currentState = table.initial
    /\ configuration = table.configuration
    /\ heap = table.heap
    /\ listeners = << >>
    /\ timers = << >>
    /\ stack = <<[Frame0 EXCEPT !.kind = "constructor", !.at = "config"],
                 [Frame0 EXCEPT !.kind = "configCallback"]>>
    /\ handles = << >>
    /\ hist = [Hist0 EXCEPT !.limit = limit,
                            !.told = [l \in recorded |-> Null],
                            !.argument = "function", !.initialStates = 1,
                            !.states = Len(table.heap),
                            !.initial = table.initial]
    /\ last = Last0

InitRunUpTo(limit) == InitRunWith(limit, {})

InitRun == InitRunUpTo(MaxRunCalls)

InitRunFair == InitRunUpTo(MaxFairCalls)

NextRun ==
  \/ ConfigCallbackReturn
  \/ ConstructorEnterReturn
  \/ \E e \in Event : transition(e)
  \/ OnEventReturn
  \/ OnExitReturn
  \/ OnEnterReturn
  \/ ListenerReturn
  \/ \E l \in Listeners : subscribe(l)
  \/ SubscribeReturn
  \/ \E h \in DOMAIN handles : Unsubscribe(h)
  \/ RunSideEffect
  \/ SideEffectReturn
  \/ Throw

SpecRun == InitRun /\ [][NextRun]_vars

\* The running machine with the notifications of every listener recorded
InitRunTold == InitRunWith(MaxRunCalls, Listeners)

SpecRunTold == InitRunTold /\ [][NextRun]_vars

\* A callback that has been called returns (or throws); the event loop runs
\* a pending timer once no code is running.
CallbackReturns ==
  \/ ConfigCallbackReturn
  \/ ConstructorEnterReturn
  \/ OnEventReturn
  \/ OnExitReturn
  \/ OnEnterReturn
  \/ ListenerReturn
  \/ SubscribeReturn
  \/ SideEffectReturn

SpecRunFair ==
  /\ InitRunFair
  /\ [][NextRun]_vars
  /\ WF_vars(CallbackReturns)
  /\ WF_vars(RunSideEffect)

----------------------------------------------------------------------------
(* The late builder's specification: the constructor call at the point     *)
(* where the config callback has built one of the rule tables above and    *)
(* is still running; then any further calls of the entry points, by the    *)
(* config callback and its state-definition callbacks and, once the        *)
(* constructor has returned, by the code that kept them.                   *)

NextLate ==
  \/ \E s \in State : InitialState(s)
  \/ \E t \in StateTypes : StateDefinition(t)
  \/ StateDefinitionReturn
  \/ \E d \in 1..Len(heap) : OnEnter(d)
  \/ \E d \in 1..Len(heap) : OnExit(d)
  \/ \E d \in 1..Len(heap), e \in EventTypes, r \in SomeRules : On(d, e, r)
  \/ ConfigCallbackReturn
  \/ ConstructorEnterReturn
  \/ Throw

SpecLate == InitRun /\ [][NextLate]_vars

----------------------------------------------------------------------------
(* Claims about the constructor and the builder, checked under SpecBuild *)

EntryPoints == {"initialState", "state", "onEnter", "onExit", "on"}

\* The scope each entry point requires on top of the scope stack
Required(name) == IF name \in {"initialState", "state"} THEN "config" ELSE "state"

\* The constructor is past its validations
Validated ==
  \/ phase = "ready"
  \/ /\ phase = "constructing"
     /\ stack # << >>
     /\ stack[1].kind = "constructor"
     /\ stack[1].at = "enter"

\* C1: the constructor call fails when its argument is not a function, when
\* the config callback returns with no accepted initialState call, and when
\* it returns with no accepted state call; when the callback has made at
\* least one accepted initialState call and one accepted state call and no
\* callback has thrown, construction succeeds with the recorded initial
\* state as current state.
C1_ConstructionOutcome ==
  /\ hist.argument \notin {"none", "function"} =>
       /\ phase = "failed"
       /\ error = "The StateMachine constructor expects a callback as the first argument"
  /\ (hist.returned /\ hist.initialStates = 0) =>
       /\ phase = "failed"
       /\ error = "No initial state provided"
  /\ (hist.returned /\ hist.initialStates > 0 /\ hist.states = 0) =>
       /\ phase = "failed"
       /\ error = "No state definition was provided"
  /\ (hist.returned /\ hist.initialStates > 0 /\ hist.states > 0
        /\ hist.throws = 0) =>
       /\ Validated
       /\ error = "none"
       /\ currentState = hist.initial

C1_Witness ==
  /\ phase = "ready"
  /\ hist.throws = 0
  /\ hist.initialStates > 0
  /\ hist.states > 0
  /\ currentState = hist.initial

\* C2: an entry-point call is accepted exactly when the tag on top of the
\* scope stack is the one it requires ("config" for initialState and state,
\* "state" for onEnter, onExit and on); a rejected call throws and leaves
\* the rule table and the initial state as they were.
C2_ScopeGuard ==
  /\ [](last.op \in EntryPoints =>
          /\ last.accepted <=> (last.top = Required(last.name))
          /\ ~last.accepted => last.message # "none")
  /\ [][(last'.op \in EntryPoints /\ ~last'.accepted) =>
          UNCHANGED <<configuration, heap, currentState, scopeStack>>]_vars

\* on / onEnter / onExit called from the config callback, after the
\* state-definition callback that granted it has returned
C2_Witness ==
  /\ last.op \in {"on", "onEnter", "onExit"}
  /\ ~last.accepted
  /\ last.top = "config"
  /\ stack # << >>
  /\ Top(stack).kind = "configCallback"

\* C3: once the constructor has returned a machine, every call of a captured
\* entry point is rejected.
C3_ReadOnlyAfterConstruction ==
  (last.op \in EntryPoints /\ last.constructed) => ~last.accepted

\* C17: the error of a rejected entry-point call names the entry point that
\* was called: initialState, state, onEnter, onExit or on.
C17_ErrorNamesEntryPoint ==
  (last.op \in EntryPoints /\ ~last.accepted) => last.message = last.name

\* The step just taken called onEnter, onExit or on as granted for one
\* state while the definition callback of another state is executing
ForeignScopeCall ==
  /\ last.op \in {"onEnter", "onExit", "on"}
  /\ stack # << >>
  /\ Top(stack).kind = "stateDefinitionCallback"
  /\ Top(stack).def # last.def
  /\ heap[Top(stack).def].for # heap[last.def].for

\* C18: the onEnter, onExit and on entry points granted for one state are
\* rejected when called while the definition callback of a different state
\* is executing (a rejected call leaves the rule table as it was, an
\* accepted one writes the entry of the state it was granted for).
C18_OwnScopeOnly == ForeignScopeCall => ~last.accepted

\* A definition object with nothing registered
Blank(d) ==
  /\ ~heap[d].onEnter
  /\ ~heap[d].onExit
  /\ \A e \in EventTypes : ~heap[d].on[e].set

\* C20: registrations are last-write-wins with no merging.  An accepted
\* state call starts from a definition object of its own with nothing
\* registered, and on its return that object replaces whatever the rule
\* table held for the type; a definition object is written only by accepted
\* calls of the entry points granted for it; an accepted on call makes its
\* rule function the event's rule, whatever was there; an accepted
\* initialState call makes its argument the initial state, whatever was
\* there.
C20_LastWriteWins ==
  /\ []((last.op = "state" /\ last.accepted) =>
          /\ last.def = Len(heap)
          /\ heap[last.def].for = last.type
          /\ Blank(last.def)
          /\ \A t \in StateTypes : configuration[t] # last.def)
  /\ [](last.op = "stateReturn" => configuration[last.type] = last.def)
  /\ []((last.op = "on" /\ last.accepted) =>
          heap[last.def].on[last.type] = last.rule)
  /\ []((last.op = "initialState" /\ last.accepted) =>
          /\ currentState = last.state
          /\ hist.initial = last.state)
  /\ [][\A d \in DOMAIN heap :
          heap'[d] # heap[d] =>
            /\ last'.op \in {"onEnter", "onExit", "on"}
            /\ last'.accepted
            /\ last'.def = d
            /\ last'.op = "on" =>
                 \A e \in EventTypes \ {last'.type} :
                   heap'[d].on[e] = heap[d].on[e]]_vars

\* A second state call for a type has returned: the first definition had
\* an onEnter callback and a rule, the second, now in the rule table, has
\* neither
C20_Witness ==
  /\ last.op = "stateReturn"
  /\ configuration[last.type] = last.def
  /\ Blank(last.def)
  /\ \E d \in 1..(last.def - 1) :
       /\ heap[d].for = last.type
       /\ heap[d].onEnter
       /\ \E e \in EventTypes : heap[d].on[e].set

\* The callback that is executing: the kind of the frame on top of the
\* call stack
Executing == IF stack = << >> THEN "none" ELSE Top(stack).kind

\* A configuration callback of the machine is on the call stack
Configuring ==
  \E i \in DOMAIN stack :
    stack[i].kind \in {"configCallback", "stateDefinitionCallback"}

\* C22: while the constructor runs and after it has returned a machine, the
\* top of the scope stack is "state" exactly while a state-definition
\* callback is executing and "config" exactly while the config callback is
\* executing, and the scope stack is empty when no configuration callback
\* is running; so an initialState or state call made by the config
\* callback itself is accepted, also after a state-definition callback has
\* thrown and the config callback has caught the error.
C22_ScopeStackMirrors ==
  phase \in {"constructing", "ready"} =>
    /\ TopTag(scopeStack) = "state" <=> Executing = "stateDefinitionCallback"
    /\ TopTag(scopeStack) = "config" <=> Executing = "configCallback"
    /\ ~Configuring => scopeStack = << >>
    /\ (last.op \in {"initialState", "state"} /\ ~last.accepted) =>
         Executing # "configCallback"

----------------------------------------------------------------------------
(* Claims about the running machine, checked under SpecRun *)

Count(seq, x) == Cardinality({i \in DOMAIN seq : seq[i] = x})
Range(seq) == {seq[i] : i \in DOMAIN seq}

\* The calls in progress: a frame of a machine method and the callback
\* frame right above it
Calls == {i \in 1..(Len(stack) - 1) : stack[i].kind \in MachineKinds}

\* The step just taken ran a stretch of transition()
Resumed ==
  last.op \in {"onEventReturn", "onExitReturn", "onEnterReturn", "listenerReturn"}

\* ... and the transition() call returned in it
Completed == Resumed /\ last.done.kind = "transition"

\* The frame of the dispatch the step just taken belongs to
ResumedFrame == IF Completed THEN last.done ELSE stack[Len(stack) - 1]

OnExitRegistered(f) == heap[f.def].onExit

NoRuleFor(state, event) ==
  \/ configuration[state.type] = 0
  \/ ~heap[configuration[state.type]].on[event.type].set

\* C5: a dispatch of an event the current state has no rule for returns
\* normally and changes nothing: current state, listeners and rule table are
\* as before, no callback is invoked and no side effect is scheduled.
C5_NoRuleNoOp ==
  [][(last'.op = "transition" /\ NoRuleFor(currentState, last'.event)) =>
       UNCHANGED <<phase, error, scopeStack, currentState, configuration,
                   heap, listeners, timers, stack, handles>>]_vars

\* Such a dispatch has been made with a listener registered, in a state
\* that has a definition but no rule for the event
C5_Witness ==
  /\ last.op = "transition"
  /\ NoRuleFor(currentState, last.event)
  /\ Members(listeners) # {}
  /\ configuration[currentState.type] # 0

\* Every listener that stayed registered throughout the dispatch was
\* notified exactly once by it
SteadyNotifiedOnce(f) == \A l \in f.steady : Count(f.seen, l) = 1

\* The side effect of the dispatch, when it has one, went to the end of the
\* timer queue as the call returned
ScheduledAtReturn(f) ==
  timers = IF f.sideEffect THEN Append(last.timers, f.id) ELSE last.timers

\* C6: in a dispatch whose rule returns dontTransition(sideEffect?), the
\* current state is left as it is, no onExit and no onEnter callback is
\* invoked, each listener is notified once with previous = current = that
\* state and the dispatched event, and the side effect, if given, is
\* scheduled as for a transitioning dispatch.
C6_DontTransition ==
  /\ \A i \in Calls :
       LET f == stack[i]
           c == stack[i + 1] IN
       (f.kind = "transition" /\ f.at # "rule" /\ f.state = Null) =>
         /\ f.at = "notify"
         /\ f.exits = 0 /\ f.enters = 0
         /\ c.kind = "listener"
         /\ c.previous = f.previousState
         /\ c.current = f.previousState
         /\ c.event = f.event
  /\ (Resumed /\ ResumedFrame.state = Null) =>
       /\ currentState = last.before
       /\ last.op = "onEventReturn" => ResumedFrame.previousState = currentState
  /\ Completed =>
       /\ ScheduledAtReturn(last.done)
       /\ last.done.state = Null =>
            /\ last.done.exits = 0 /\ last.done.enters = 0
            /\ SteadyNotifiedOnce(last.done)

\* A dontTransition dispatch with a side effect has returned after
\* notifying a listener
C6_Witness ==
  /\ Completed
  /\ last.done.state = Null
  /\ last.done.sideEffect
  /\ last.done.seen # << >>
  /\ last.done.steady # {}
  /\ timers # << >>

\* The side effect of dispatch d is running, on its own (nothing else is on
\* the stack), for the first and only time, after the dispatch returned
RunsAfterReturn(i) ==
  LET d == stack[i].id IN
  /\ i = 1
  /\ d \notin InProgress(stack)
  /\ Count(hist.scheduled, d) = 1
  /\ Count(hist.ran, d) = 1
  /\ d \notin Range(timers)

\* C7: a side effect returned by a rule does not run during its dispatch;
\* it runs once, after that transition() call (and whatever called it) has
\* returned, and every scheduled side effect does run: a scheduled side
\* effect is in the timer queue or has run, and leaves the queue only by
\* running; the queue, when not empty, empties.
C7_SideEffectDeferred ==
  /\ [](\A i \in DOMAIN stack :
          stack[i].kind = "sideEffect" => RunsAfterReturn(i))
  /\ [](\A d \in Range(hist.scheduled) :
          Count(hist.ran, d) + Count(timers, d) = 1)
  /\ [](Completed => ScheduledAtReturn(last.done))
  /\ (timers # << >>) ~> (timers = << >>)

\* The side effect of a transitioning dispatch is running
C7_Witness ==
  /\ stack # << >>
  /\ Top(stack).kind = "sideEffect"
  /\ Top(stack).id \in Range(hist.ran)
  /\ Top(stack).id \in Range(hist.scheduled)
  /\ currentState # hist.initial

\* C8 (as claimed): side effects run in the order of the transition() calls
\* that scheduled them.
C8_FifoByCallOrder ==
  \A i, j \in DOMAIN hist.ran : i < j => hist.ran[i] < hist.ran[j]

\* C8 (amended): side effects run in the order in which they were scheduled,
\* that is, in which their transition() calls returned; of two dispatches,
\* the one called first runs its side effect first unless it was still in
\* progress when the other was called.
C8_FifoBySchedule ==
  /\ Len(hist.ran) <= Len(hist.scheduled)
  /\ hist.ran = SubSeq(hist.scheduled, 1, Len(hist.ran))
  /\ \A i, j \in DOMAIN hist.ran :
       i < j => \/ hist.ran[i] < hist.ran[j]
                \/ hist.ran[j] \in hist.open[hist.ran[i]]

\* The side effect of a dispatch called from inside another dispatch has
\* run before the side effect of the enclosing one
C8_Witness ==
  /\ Len(hist.ran) >= 2
  /\ hist.ran[1] > hist.ran[2]
  /\ hist.ran[2] \in hist.open[hist.ran[1]]

\* C9: subscribe(listener) registers the listener and, before it returns,
\* calls it exactly once, with (null, the current state, null); it calls no
\* other listener and does not change the current state.
C9_SubscribeFirstEmit ==
  /\ \A i \in Calls :
       LET f == stack[i]
           c == stack[i + 1] IN
       f.kind = "subscribe" =>
         /\ c.kind = "listener"
         /\ c.listener = f.listener
         /\ c.previous = Null
         /\ c.event = Null
         /\ c.current = c.csAtCall
  /\ last.op = "subscribe" =>
       /\ last.listener \in Members(listeners)
       /\ Members(listeners) = last.members \cup {last.listener}
       /\ currentState = last.before
       /\ Len(stack) = last.depth + 2
       /\ Caller.kind = "subscribe"
       /\ Top(stack).listener = last.listener
       /\ Top(stack).current = currentState
  /\ last.op = "subscribeReturn" =>
       /\ currentState = last.before
       /\ Len(stack) = last.depth - 2
       /\ handles # << >>
       /\ handles[Len(handles)] = last.listener

\* subscribe has called the new listener while another one is registered
C9_Witness ==
  /\ last.op = "subscribe"
  /\ Cardinality(Members(listeners)) = 2
  /\ last.before \in State
  /\ Top(stack).previous = Null
  /\ Top(stack).current = last.before

\* The step just taken called a listener from a dispatch
Notified ==
  /\ Resumed
  /\ ~Completed
  /\ Top(stack).kind = "listener"

\* C10: a listener whose unsubscribe function has been called is notified by
\* no dispatch (until it is subscribed again); the listeners that stay
\* subscribed are each notified once by every dispatch that matches a rule;
\* an unsubscribe function removes no listener but its own.
C10_Unsubscribe ==
  /\ Notified => Top(stack).listener \in hist.subscribed
  /\ Completed => SteadyNotifiedOnce(last.done)
  /\ last.op = "unsubscribe" =>
       Members(listeners) = last.members \ {last.listener}

\* A dispatch has returned after notifying a listener, with another
\* listener unsubscribed before it was called
C10_Witness ==
  /\ Completed
  /\ last.done.seen # << >>
  /\ \E l \in Range(handles) :
       /\ l \notin hist.subscribed
       /\ l \notin last.members
       /\ l \notin Range(last.done.seen)
       /\ last.done.steady = Members(listeners)
       /\ last.done.steady # {}

----------------------------------------------------------------------------
(* Claims about the observer registry, checked under SpecRun *)

\* The registrations of listener l if every subscribe call made one of its
\* own: the subscribe(l) calls made, less the unsubscribe functions of l
\* that have been called
Registrations(l) ==
  hist.subscribes[l] - Cardinality({h \in hist.called : handles[h] = l})

\* No transition, subscribe or unsubscribe call was made while dispatch f
\* was in progress
Quiet(f) == hist.runCalls = f.calls

\* C11 (as claimed): every subscribe call makes a registration of its own,
\* also for a listener already subscribed: a matching dispatch notifies a
\* listener once per subscribe call whose unsubscribe function has not been
\* called.
C11_IndependentRegistrations ==
  (Completed /\ Quiet(last.done)) =>
    \A l \in Listeners : Count(last.done.seen, l) = Registrations(l)

\* C11 (amended): a listener has at most one registration, however often it
\* is subscribed: a matching dispatch notifies it once if it is subscribed
\* and no unsubscribe function of it has been called since, and not at all
\* otherwise; any one of its unsubscribe functions removes it.
C11_SingleRegistration ==
  /\ \A l \in Listeners : Count(listeners, l) <= 1
  /\ Members(listeners) = hist.subscribed
  /\ (Completed /\ Quiet(last.done)) =>
       \A l \in Listeners :
         Count(last.done.seen, l) = IF l \in hist.subscribed THEN 1 ELSE 0
  /\ last.op = "unsubscribe" => last.listener \notin Members(listeners)

\* A listener subscribed twice, one of whose two unsubscribe functions has
\* been called, was not notified by the dispatch that has just returned
C11_Witness ==
  /\ Completed
  /\ Quiet(last.done)
  /\ \E l \in Listeners :
       /\ hist.subscribes[l] = 2
       /\ Registrations(l) = 1
       /\ Count(last.done.seen, l) = 0

\* The dispatches in progress, and the one that has just returned
Dispatches ==
  {stack[i] : i \in {j \in DOMAIN stack : stack[j].kind = "transition"}}
    \cup (IF Completed THEN {last.done} ELSE {})

\* C12 (as claimed): a listener that was registered when a notification
\* round began and is unsubscribed during the round, before the round has
\* called it, is still notified in that round.
C12_RoundUnaffected ==
  Completed => \A l \in last.done.removed : l \in Range(last.done.seen)

\* C12 (amended): unsubscribing takes effect at once, also for the round in
\* progress: a listener is called by a round only while it is a member of
\* the registry, so a listener unsubscribed before the round has reached it
\* is not notified in that round (unless it is subscribed again before the
\* round ends).
C12_RoundSkipsRemoved ==
  /\ \A f \in Dispatches : f.removed \cap Range(f.seen) = {}
  /\ \A f \in Dispatches : f.removed \cap Members(listeners) = {}
  /\ Notified => Top(stack).listener \in Members(listeners)

\* A dispatch has returned whose round called one listener and skipped
\* another that was unsubscribed during the round
C12_Witness ==
  /\ Completed
  /\ last.done.seen # << >>
  /\ \E l \in last.done.removed :
       /\ l \in last.done.atRound
       /\ l \notin Range(last.done.seen)
       /\ l \in Range(handles)

\* C13 (as claimed): every dispatch, whatever the event and the current
\* state, notifies exactly once every listener that is a member of the
\* registry when transition(event) is called.
C13_AllNotifiedAlways ==
  /\ (last.op = "transition" /\ ~last.accepted) => last.members = {}
  /\ Completed =>
       \A l \in last.done.atCall : Count(last.done.seen, l) = 1

\* C13 (amended): a dispatch for which the current state has a rule and
\* which returns normally has notified exactly once every listener that was
\* a member of the registry when transition(event) was called and stayed
\* one until it returned; no dispatch notifies such a listener twice; a
\* dispatch for which the current state has no rule calls no listener.
C13_MatchedNotifiesSteady ==
  /\ (last.op = "transition" /\ ~last.accepted) => Len(stack) = last.depth
  /\ \A f \in Dispatches :
       \A l \in f.atCall \cap f.steady : Count(f.seen, l) <= 1
  /\ Completed =>
       \A l \in last.done.atCall \cap last.done.steady :
         Count(last.done.seen, l) = 1

\* A dispatch has returned after notifying the two listeners that were
\* registered when it was called
C13_Witness ==
  /\ Completed
  /\ Cardinality(last.done.atCall) = 2
  /\ last.done.steady = last.done.atCall
  /\ Len(last.done.seen) = 2

----------------------------------------------------------------------------
(* Claims about entering and leaving states *)

\* C14: the constructor, once past its validations, invokes the onEnter
\* callback of the initial state (if one is registered) with the initial
\* state, before any dispatch; and every state that is the current state
\* of a constructed machine has had the onEnter callback registered for
\* its type (if any) invoked with it.  Checked under SpecLate.
C14_EntryInvariant ==
  /\ last.op = "constructed" =>
       /\ hist.entered = currentState
       /\ hist.balance[currentState.type] = 1
       /\ hist.dispatches = 0
  /\ (phase = "ready" /\ HasOnEnter(currentState.type)) =>
       hist.entered = currentState

\* Every state registers both an onEnter and an onExit callback
AllRegistered ==
  \A t \in StateTypes :
    /\ configuration[t] # 0
    /\ heap[configuration[t]].onEnter
    /\ heap[configuration[t]].onExit

C23_CallbackVariant ==
  \A i \in DOMAIN stack :
    /\ stack[i].kind \in {"onExit", "onEnter", "onEvent"} =>
         stack[i].state.type = heap[stack[i].def].for
    /\ stack[i].kind = "onEvent" =>
         stack[i].rule = heap[stack[i].def].on[stack[i].event.type]

----------------------------------------------------------------------------
(* Claims about what listeners are told, checked under SpecRun *)

\* C19: whenever a dispatch invokes a listener, the `current` argument is
\* the machine's current state at that moment (what the `state` accessor
\* returns).
C19_CurrentIsState ==
  \A i \in Calls :
    (stack[i].kind = "transition" /\ stack[i + 1].kind = "listener") =>
      stack[i + 1].current = stack[i + 1].csAtCall

\* C24: each listener observes a consistent history.  A notification
\* delivered to a listener has as `previous` the `current` of the
\* notification delivered to that listener just before it, null when it is
\* the first since the listener was subscribed; and within one dispatch
\* the state passed to the rule function, the state recorded as previous,
\* the state passed to onExit and the `previous` passed to listeners are
\* the same value.  Checked under SpecRunTold, whose rule functions,
\* onEnter and onExit callbacks and listeners may dispatch.
C24_ConsistentHistory ==
  /\ \A i \in DOMAIN stack :
       (stack[i].kind = "listener" /\ stack[i].listener \in DOMAIN hist.told)
         => stack[i].previous = stack[i].prior
  /\ \A i \in DOMAIN stack :
       (stack[i].kind = "transition" /\ stack[i].at # "rule") =>
         stack[i].previousState = stack[i].passed
  /\ \A i \in Calls :
       (stack[i].kind = "transition"
          /\ stack[i + 1].kind \in {"onExit", "listener"}) =>
         IF stack[i + 1].kind = "onExit"
         THEN stack[i + 1].state = stack[i].passed
         ELSE stack[i + 1].previous = stack[i].passed

----------------------------------------------------------------------------
(* Claims about a rule function that throws, checked under SpecRun *)

\* The step just taken: the rule function of a dispatch threw
RuleThrew == last.op = "throw" /\ last.thrown.kind = "onEvent"

\* C16 (as claimed): when the rule function of a dispatch throws, the
\* current state is the one from before the dispatch.
C16_RuleThrowLeavesState ==
  RuleThrew => currentState = last.thrown.csAtCall

\* C16 (amended): when the rule function of a dispatch throws, the error
\* reaches the caller of transition() and the dispatch applies nothing: it
\* has invoked no onExit and no onEnter callback, notified no listener and
\* scheduled no side effect, and it leaves the current state as the rule
\* function left it, which is the state from before the dispatch unless
\* the rule function itself made a dispatch.
C16_RuleThrowAppliesNothing ==
  RuleThrew =>
    /\ currentState = last.before
    /\ timers = last.timers
    /\ last.done.kind = "transition"
    /\ last.done.id = last.thrown.id
    /\ last.done.at = "rule"
    /\ last.done.exits = 0 /\ last.done.enters = 0
    /\ last.done.seen = << >>
    /\ last.thrown.id \notin Range(hist.scheduled)
    /\ last.thrown.id \notin Range(timers)
    /\ last.thrown.id \notin InProgress(stack)
    /\ Len(stack) = last.depth - 2
    /\ hist.dispatches = last.thrown.id => currentState = last.thrown.csAtCall

\* The rule function of a transitioning rule has thrown, with a listener
\* registered
C16_Witness ==
  /\ RuleThrew
  /\ last.thrown.rule.state # Null
  /\ Members(listeners) # {}
  /\ currentState = last.thrown.csAtCall

----------------------------------------------------------------------------
(* Claims about the machine as a fold of its rule table, checked under     *)
(* SpecRun                                                                 *)

\* No callback has thrown and no transition() call was made while a
\* dispatch was in progress
Sequential ==
  /\ hist.throws = 0
  /\ \A d \in DOMAIN hist.open : hist.open[d] = {}

\* C21: when no callback throws and no dispatch is made from inside a
\* dispatch, then whenever no dispatch is in progress the current state of
\* the constructed machine is the fold of step over the events dispatched
\* so far, starting from the initial state, and it is a state value.
C21_RefinesFold ==
  (phase = "ready" /\ Sequential /\ InProgress(stack) = {}) =>
    /\ currentState = hist.fold
    /\ currentState \in State

\* Three dispatches have been made in a row, two that changed the state
\* and one that did not
C21_Witness ==
  /\ phase = "ready"
  /\ Sequential
  /\ InProgress(stack) = {}
  /\ hist.dispatches = 3
  /\ currentState = hist.fold
  /\ currentState = Mk("state3")

====
